---- MODULE Spec2Model ----
(***************************************************************************)
(* Model of interpolate-slow.py: the boundary-condition interpolation of   *)
(* a field known on the nodes of a FEM mesh onto the points of a BEM mesh. *)
(*                                                                         *)
(*   prepare_for_interpolation  (the de-duplication of lines 133-140)      *)
(*   interpolate_BC             (bounding-box guard around griddata)       *)
(*   construct_vertices         (Delaunay, find_simplex, barycentric map)  *)
(*   fast_interpolate           (np.take + np.einsum over the map)         *)
(*                                                                         *)
(* Floating-point numbers are modelled as exact rationals [n, d] in lowest *)
(* terms with d > 0; not-a-number is the extra value [n |-> 0, d |-> 0].   *)
(* Coordinates are integers counted in quarters of the mesh spacing, so    *)
(* the node (1, 0) of the unit triangle is <<4, 0>> and the evaluation     *)
(* point (0.25, 0.25) is <<1, 1>>.  Python indices stay 0-based.           *)
(***************************************************************************)
EXTENDS Integers, Sequences, FiniteSets

\* ------------------------------------------------------------------ bounds
\* Number of nodes of the FEM node strip that source points are drawn from.
GridNodes == 6
\* Largest number of FEM nodes in a source point set.
MaxPts == 4
\* Largest number of evaluation points in one call of construct_vertices.
MaxQ == 2
\* Largest number of coordinates handed to the de-duplication, and of data
\* points handed to interpolate_BC.
MaxData == 3

\* --------------------------------------------------------------- rationals
Abs(a) == IF a < 0 THEN -a ELSE a

RECURSIVE GCD(_, _)
GCD(a, b) == IF b = 0 THEN a ELSE GCD(b, a % b)

\* numpy.nan
nan == [n |-> 0, d |-> 0]

IsNan(a) == a.d = 0

\* The float n/d (d # 0), in lowest terms with a positive denominator.
Rat(n, d) ==
    LET g == GCD(Abs(n), Abs(d))
        s == IF d < 0 THEN -1 ELSE 1
    IN  [n |-> s * (n \div g), d |-> s * (d \div g)]

RInt(i) == [n |-> i, d |-> 1]

RAdd(a, b) ==
    IF IsNan(a) \/ IsNan(b) THEN nan ELSE Rat(a.n * b.d + b.n * a.d, a.d * b.d)

RSub(a, b) ==
    IF IsNan(a) \/ IsNan(b) THEN nan ELSE Rat(a.n * b.d - b.n * a.d, a.d * b.d)

RMul(a, b) ==
    IF IsNan(a) \/ IsNan(b) THEN nan ELSE Rat(a.n * b.n, a.d * b.d)

\* ---------------------------------------------------------------- geometry
\* Twice the signed area of the triangle a, b, c.
Orient(a, b, c) ==
    (b[1] - a[1]) * (c[2] - a[2]) - (b[2] - a[2]) * (c[1] - a[1])

\* The in-circle determinant of a, b, c and p (rows relative to p).
InCircleDet(a, b, c, p) ==
    LET ax == a[1] - p[1]  ay == a[2] - p[2]
        bx == b[1] - p[1]  by == b[2] - p[2]
        cx == c[1] - p[1]  cy == c[2] - p[2]
        a2 == ax * ax + ay * ay
        b2 == bx * bx + by * by
        c2 == cx * cx + cy * cy
    IN  ax * (by * c2 - b2 * cy) - ay * (bx * c2 - b2 * cx)
          + a2 * (bx * cy - by * cx)

\* p lies strictly inside the circle through a, b, c (not collinear).
InCircle(a, b, c, p) == InCircleDet(a, b, c, p) * Orient(a, b, c) > 0

\* p lies in the closed triangle a, b, c (not collinear).
InTriangle(a, b, c, p) ==
    LET o == Orient(a, b, c)
    IN  /\ Orient(a, b, p) * o >= 0
        /\ Orient(b, c, p) * o >= 0
        /\ Orient(c, a, p) * o >= 0

\* Some edge of triangle s has all of triangle t on its other side.
SeparatedBy(s, t) ==
    \E e \in {<<1, 2, 3>>, <<2, 3, 1>>, <<3, 1, 2>>} :
        LET o == Orient(s[e[1]], s[e[2]], s[e[3]])
        IN  \A k \in 1..3 : Orient(s[e[1]], s[e[2]], t[k]) * o <= 0

\* Two triangles (triples of coordinates) share no interior point.
InteriorDisjoint(s, t) == SeparatedBy(s, t) \/ SeparatedBy(t, s)

\* ------------------------------------------------------------------ state
VARIABLES
    xy,        \* construct_vertices: coordinates of the FEM nodes
    uv,        \* construct_vertices: coordinates of the BEM points passed
    pc,        \* "start", "failed" (Delaunay raised), "built", "evaluated"
    vertices,  \* the map: one triple of node indices per BEM point
    weights,   \* the map: one triple of weights per BEM point
    values,    \* fast_interpolate: the field vector of the last call
    result,    \* fast_interpolate: what the last call raised and returned
    call,      \* parallel fast_interpolate calls: per caller, its progress
    log,       \* the calls of the re-use scenario, in order
    prep,      \* prepare_for_interpolation: its arrays and its progress
    bc         \* interpolate_BC: its arguments, its progress, its return

vars == <<xy, uv, pc, vertices, weights, values, result, call, log, prep, bc>>

\* ------------------------------------------------------------------ numpy
\* The 1-based position of Python index i in an array of length len.
PyIndex(i, len) == IF i < 0 THEN len + i + 1 ELSE i + 1

\* Python index i is accepted by np.take (mode 'raise') on length len.
InRange(i, len) == -len <= i /\ i < len

\* np.take(arr, idx, axis=0) for a 1-d index array idx, all in range.
TakeRows(arr, idx) ==
    [n \in 1..Len(idx) |-> arr[PyIndex(idx[n], Len(arr))]]

\* --------------------------------------------------------- qhull.Delaunay
\* Coordinates of node i (0-based) of the point array pts.
Node(pts, i) == pts[i + 1]

NodeIds(pts) == 0..(Len(pts) - 1)

\* Fewer than three nodes, or no three of them span a triangle: Qhull
\* cannot build an initial simplex and Delaunay raises.
Degenerate(pts) ==
    ~ \E i, j, k \in NodeIds(pts) :
          Orient(Node(pts, i), Node(pts, j), Node(pts, k)) # 0

Corners(pts, t) == <<Node(pts, t[1]), Node(pts, t[2]), Node(pts, t[3])>>

\* The triangles of pts whose circumcircle holds no node in its interior.
EmptyCircle(pts) ==
    {t \in NodeIds(pts) \X NodeIds(pts) \X NodeIds(pts) :
        /\ t[1] < t[2] /\ t[2] < t[3]
        /\ Orient(Node(pts, t[1]), Node(pts, t[2]), Node(pts, t[3])) # 0
        /\ \A i \in NodeIds(pts) :
              ~ InCircle(Node(pts, t[1]), Node(pts, t[2]), Node(pts, t[3]),
                         Node(pts, i))}

RECURSIVE Area2(_, _)
Area2(pts, S) ==
    IF S = {} THEN 0
    ELSE LET t == CHOOSE x \in S : TRUE
         IN  Abs(Orient(Node(pts, t[1]), Node(pts, t[2]), Node(pts, t[3])))
               + Area2(pts, S \ {t})

NonOverlapping(pts) ==
    {S \in SUBSET EmptyCircle(pts) :
        \A s, t \in S :
            s # t => InteriorDisjoint(Corners(pts, s), Corners(pts, t))}

\* The Delaunay triangulations of pts: the non-overlapping sets of
\* empty-circle triangles that fill the convex hull.  Nodes on a common
\* circle leave Qhull a choice, so there may be several.
Triangulations(pts) ==
    LET N == NonOverlapping(pts)
        areas == {Area2(pts, R) : R \in N}
        hull == CHOOSE a \in areas : \A b \in areas : b <= a
    IN  {S \in N : Area2(pts, S) = hull}

RECURSIVE SeqOf(_)
SeqOf(S) ==
    IF S = {} THEN <<>>
    ELSE LET t == CHOOSE x \in S : TRUE IN <<t>> \o SeqOf(S \ {t})

Rotate(s, r) == [n \in 1..Len(s) |-> s[((n + r - 1) % Len(s)) + 1]]

Perms3 ==
    {<<1, 2, 3>>, <<1, 3, 2>>, <<2, 1, 3>>, <<2, 3, 1>>, <<3, 1, 2>>, <<3, 2, 1>>}

\* Mutant of Transform: the offset row is the first corner, not the last.
TransformFirstCorner(pts, t) ==
    LET a == Node(pts, t[1])
        b == Node(pts, t[2])
        r == Node(pts, t[3])
        det == (a[1] - r[1]) * (b[2] - r[2]) - (b[1] - r[1]) * (a[2] - r[2])
    IN  << <<Rat(b[2] - r[2], det), Rat(-(b[1] - r[1]), det)>>,
           <<Rat(-(a[2] - r[2]), det), Rat(a[1] - r[1], det)>>,
           <<RInt(a[1]), RInt(a[2])>> >>

\* tri.transform[s]: rows 0 and 1 are the inverse of the matrix whose
\* columns are corner0 - r and corner1 - r, row 2 is r, the last corner.
Transform(pts, t) ==
    LET a == Node(pts, t[1])
        b == Node(pts, t[2])
        r == Node(pts, t[3])
        det == (a[1] - r[1]) * (b[2] - r[2]) - (b[1] - r[1]) * (a[2] - r[2])
    IN  << <<Rat(b[2] - r[2], det), Rat(-(b[1] - r[1]), det)>>,
           <<Rat(-(a[2] - r[2]), det), Rat(a[1] - r[1], det)>>,
           <<RInt(r[1]), RInt(r[2])>> >>

\* What qhull.Delaunay(pts) can return for non-degenerate pts.  Qhull fixes
\* neither the order of the simplices nor the order of the corners within
\* one: every simplex may come last, every corner in every slot.
Delaunay(pts) ==
    {[simplices |-> sim,
      transform |-> [s \in 1..Len(sim) |-> Transform(pts, sim[s])]] :
        sim \in {[s \in 1..Len(base) |-> <<base[s][p[1]], base[s][p[2]], base[s][p[3]]>>] :
                    base \in UNION {{Rotate(SeqOf(S), r) : r \in 1..Cardinality(S)} :
                                        S \in Triangulations(pts)},
                    p \in Perms3}}

\* The simplices (0-based) of tri whose closed triangle holds the point p.
Holding(pts, tri, p) ==
    {s \in 0..(Len(tri.simplices) - 1) :
        LET c == Corners(pts, tri.simplices[s + 1])
        IN  InTriangle(c[1], c[2], c[3], p)}

\* tri.find_simplex(q) for the first k points of q: for each point the index
\* of a simplex holding it (any one where several do), -1 where none does.
RECURSIVE FindSimplexUpTo(_, _, _, _)
FindSimplexUpTo(pts, tri, q, k) ==
    IF k = 0 THEN {<<>>}
    ELSE LET H == Holding(pts, tri, q[k])
         IN  {Append(f, s) : f \in FindSimplexUpTo(pts, tri, q, k - 1),
                             s \in IF H = {} THEN {-1} ELSE H}

FindSimplex(pts, tri, q) == FindSimplexUpTo(pts, tri, q, Len(q))

\* np.einsum('njk,nk->nj', temp[:, :2, :], delta)
EinsumNjkNk(temp, delta) ==
    [n \in 1..Len(delta) |->
        [j \in 1..2 |->
            RAdd(RMul(temp[n][j][1], delta[n][1]),
                 RMul(temp[n][j][2], delta[n][2]))]]

\* Mutant of HstackBary: the last weight is 1 minus the first one only.
HstackFirstOnly(bary) ==
    [n \in 1..Len(bary) |->
        <<bary[n][1], bary[n][2], RSub(RInt(1), bary[n][1])>>]

\* np.hstack((bary, 1 - bary.sum(axis=1, keepdims=True)))
HstackBary(bary) ==
    [n \in 1..Len(bary) |->
        <<bary[n][1], bary[n][2],
          RSub(RInt(1), RAdd(bary[n][1], bary[n][2]))>>]

\* The body of construct_vertices after the triangulation tri is built.
MapOf(tri, simplex, q) ==
    LET temp  == TakeRows(tri.transform, simplex)
        delta == [n \in 1..Len(q) |->
                     <<RSub(RInt(q[n][1]), temp[n][3][1]),
                       RSub(RInt(q[n][2]), temp[n][3][2])>>]
        bary  == EinsumNjkNk(temp, delta)
    IN  [vertices |-> TakeRows(tri.simplices, simplex),
         weights  |-> HstackBary(bary)]

\* -------------------------------------------------------- fast_interpolate
\* np.take(values, vertices): the field at every node index of the map.
TakeValues(vals, verts) ==
    [n \in 1..Len(verts) |->
        [j \in 1..Len(verts[n]) |-> vals[PyIndex(verts[n][j], Len(vals))]]]

\* The sum over the first j columns of a[j] * b[j].
RECURSIVE RowDot(_, _, _)
RowDot(a, b, j) ==
    IF j = 0 THEN RInt(0)
    ELSE RAdd(RowDot(a, b, j - 1), RMul(RInt(a[j]), b[j]))

\* Mutant of EinsumNjNj: every row is weighted with the first row of b.
EinsumFirstRow(a, b) == [n \in 1..Len(a) |-> RowDot(a[n], b[1], Len(a[n]))]

\* np.einsum('nj,nj->n', a, b)
EinsumNjNj(a, b) == [n \in 1..Len(a) |-> RowDot(a[n], b[n], Len(a[n]))]

NoResult == [raised |-> "", out |-> <<>>]

\* Mutant of FastInterpolate: the gathered field is passed to einsum twice,
\* in place of the weights.
FastInterpolateSquared(vals, verts, wts) ==
    IF \E n \in 1..Len(verts) : \E j \in 1..Len(verts[n]) :
           ~ InRange(verts[n][j], Len(vals))
    THEN [raised |-> "IndexError", out |-> <<>>]
    ELSE [raised |-> "",
          out |-> [n \in 1..Len(verts) |->
                      RowDot(TakeValues(vals, verts)[n],
                             [j \in 1..3 |-> RInt(TakeValues(vals, verts)[n][j])],
                             3)]]

\* fast_interpolate(values, vertices, weights): np.take raises IndexError on
\* an index outside [-len, len), and nothing is returned then.
FastInterpolate(vals, verts, wts) ==
    IF \E n \in 1..Len(verts) : \E j \in 1..Len(verts[n]) :
           ~ InRange(verts[n][j], Len(vals))
    THEN [raised |-> "IndexError", out |-> <<>>]
    ELSE [raised |-> "", out |-> EinsumNjNj(TakeValues(vals, verts), wts)]

\* ------------------------------------------------------------------ inputs
\* a comes before b in the order of np.unique on x + 1j*y.
Before(a, b) == a[1] < b[1] \/ (a[1] = b[1] /\ a[2] < b[2])

RECURSIVE SortPts(_)
SortPts(S) ==
    IF S = {} THEN <<>>
    ELSE LET m == CHOOSE a \in S : \A b \in S \ {a} : Before(a, b)
         IN  <<m>> \o SortPts(S \ {m})

\* The FEM nodes: two rows of a regular strip, one mesh spacing apart,
\* counted column by column: (0,0), (0,1), (1,0), (1,1), (2,0), ...
Grid == {<<4 * (k \div 2), 4 * (k % 2)>> : k \in 0..(GridNodes - 1)}

\* The point sets prepare_for_interpolation hands on: unique, sorted.
SourceSets == {SortPts(S) : S \in {R \in SUBSET Grid : Cardinality(R) <= MaxPts}}

\* (5, 5) for the unit triangle: far outside every bounding box.
Far == <<20, 20>>

\* The BEM mesh: the FEM nodes, the centre of each cell, the point
\* (0.25, 0.25) of the first cell, and the far point.
BEMPoints ==
    SortPts(Grid \cup {<<1, 1>>}
              \cup {<<4 * i + 2, 2>> : i \in 0..((GridNodes \div 2) - 2)})
        \o <<Far>>

\* The batches of evaluation points: runs of consecutive BEM points.
Batches ==
    {SubSeq(BEMPoints, i, j) :
        i \in 1..Len(BEMPoints),
        j \in 0..Len(BEMPoints)} \cap
    UNION {[1..k -> Grid \cup {Far} \cup {BEMPoints[n] : n \in 1..Len(BEMPoints)}] :
              k \in 0..MaxQ}

Ramp(n) == [i \in 1..n |-> 2 * i - 1]

\* The field vectors of length n: the unit vectors and an odd ramp.
FieldsOfLen(n) ==
    {[i \in 1..n |-> IF i = k THEN 1 ELSE 0] : k \in 1..n} \cup {Ramp(n)}

\* The field vectors a caller may pass for m nodes: of the right length, one
\* entry short, one entry long.
Fields(m) == FieldsOfLen(m) \cup {Ramp(m - 1), Ramp(m + 1)}

\* ----------------------------------------------------------------- actions
Init ==
    /\ xy \in SourceSets
    /\ uv = <<>>
    /\ pc = "start"
    /\ vertices = <<>>
    /\ weights = <<>>
    /\ values = <<>>
    /\ result = NoResult
    /\ call = <<>>
    /\ log = <<>>
    /\ prep = <<>>
    /\ bc = <<>>

\* Mutant of ConstructVertices: the error of Delaunay is swallowed and an
\* empty map is returned.
ConstructVerticesSwallow ==
    /\ pc = "start"
    /\ \E q \in Batches : uv' = q
    /\ \/ /\ Degenerate(xy)
          /\ UNCHANGED <<vertices, weights>>
       \/ /\ ~ Degenerate(xy)
          /\ \E tri \in Delaunay(xy) :
               \E simplex \in FindSimplex(xy, tri, uv') :
                  LET m == MapOf(tri, simplex, uv')
                  IN  /\ vertices' = m.vertices
                      /\ weights' = m.weights
    /\ pc' = "built"
    /\ UNCHANGED <<xy, values, result, call, log, prep, bc>>

\* construct_vertices(xy, uv)
ConstructVertices ==
    /\ pc = "start"
    /\ \/ /\ Degenerate(xy)
          /\ \E q \in Batches : uv' = q
          /\ pc' = "failed"
          /\ UNCHANGED <<vertices, weights>>
       \/ /\ ~ Degenerate(xy)
          /\ \E tri \in Delaunay(xy) :
               \E q \in Batches :
                  \E simplex \in FindSimplex(xy, tri, q) :
                     LET m == MapOf(tri, simplex, q)
                     IN  /\ uv' = q
                         /\ vertices' = m.vertices
                         /\ weights' = m.weights
          /\ pc' = "built"
    /\ UNCHANGED <<xy, values, result, call, log, prep, bc>>

\* fast_interpolate(values, vertices, weights) on the built map
FastInterpolateCall ==
    /\ pc = "built"
    /\ \E v \in Fields(Len(xy)) :
          /\ values' = v
          /\ result' = FastInterpolate(v, vertices, weights)
    /\ pc' = "evaluated"
    /\ UNCHANGED <<xy, uv, vertices, weights, call, log, prep, bc>>

\* The caller takes the result and keeps the map for the next field.
Reuse ==
    /\ pc = "evaluated"
    /\ pc' = "built"
    /\ values' = <<>>
    /\ result' = NoResult
    /\ UNCHANGED <<xy, uv, vertices, weights, call, log, prep, bc>>

Next == ConstructVertices \/ FastInterpolateCall \/ Reuse

Spec == Init /\ [][Next]_vars

\* ------------------------------------------------- vocabulary of the claims
\* p lies in the convex hull of pts: in the closed triangle of three nodes.
InHull(pts, p) ==
    \E i, j, k \in NodeIds(pts) :
        /\ i < j /\ j < k
        /\ Orient(Node(pts, i), Node(pts, j), Node(pts, k)) # 0
        /\ InTriangle(Node(pts, i), Node(pts, j), Node(pts, k), p)

\* The map exists: construct_vertices has returned it.
Built == pc \in {"built", "evaluated"}

\* fast_interpolate has returned for a field with one entry per node.
Evaluated == pc = "evaluated" /\ Len(values) = Len(xy)

\* weights[q][j] * field[vertices[q][j]], slots and indices 0-based.
Term(q, j) ==
    RMul(weights[q + 1][j + 1], RInt(values[vertices[q + 1][j + 1] + 1]))

\* ------------------------------------------------------------------ claims
\* C1: for every evaluation point outside the convex hull of the source
\* points, what fast_interpolate returns from the map of construct_vertices
\* is not-a-number, for every field vector.
C1_OutsideHullIsNan ==
    Evaluated =>
        \A q \in 1..Len(uv) :
            ~ InHull(xy, uv[q]) =>
                /\ q \in DOMAIN result.out
                /\ IsNan(result.out[q])

\* C2: for a map of K points and a field with one entry per source point,
\* fast_interpolate returns exactly K values, and output[q] is
\* weights[q][0]*field[vertices[q][0]] + weights[q][1]*field[vertices[q][1]]
\* + weights[q][2]*field[vertices[q][2]] for every q.
C2_WeightedSum ==
    Evaluated =>
        /\ result.raised = ""
        /\ Len(result.out) = Len(uv)
        /\ Len(vertices) = Len(uv)
        /\ \A q \in 0..(Len(uv) - 1) :
              result.out[q + 1] = RAdd(RAdd(Term(q, 0), Term(q, 1)), Term(q, 2))

\* Two points evaluated with different weights, neither value zero.
C2_Witness ==
    /\ Evaluated
    /\ Len(uv) = 2
    /\ weights[1] # weights[2]
    /\ \A q \in 1..2 : result.out[q].n # 0 /\ result.out[q].d > 1

\* C3: for every evaluation point located in a triangle, the three weights
\* construct_vertices returns for it sum to 1, whichever triangle it is.
C3_PartitionOfUnity ==
    Built =>
        \A q \in 1..Len(uv) :
            InHull(xy, uv[q]) =>
                RAdd(RAdd(weights[q][1], weights[q][2]), weights[q][3]) = RInt(1)

\* A point strictly inside a triangle of a two-triangle mesh.
C3_Witness ==
    /\ Built
    /\ Len(xy) = 4
    /\ \E q \in 1..Len(uv) :
          /\ InHull(xy, uv[q])
          /\ \A j \in 1..3 : weights[q][j].n > 0 /\ weights[q][j].d > 1

\* C4: a field vector whose length differs from the number of source points
\* makes fast_interpolate fail with an error and return nothing (stated
\* here for the maps of at least one evaluation point).
C4_MismatchRaises ==
    (pc = "evaluated" /\ Len(values) # Len(xy) /\ Len(uv) > 0) =>
        /\ result.raised # ""
        /\ result.out = <<>>

\* C9: for fewer than 3 source points, or source points all on one line,
\* construct_vertices fails while building the triangulation and returns
\* neither vertices nor weights.
C9_DegenerateFails ==
    (/\ pc # "start"
     /\ \/ Len(xy) < 3
        \/ \A i, j, k \in 1..Len(xy) : Orient(xy[i], xy[j], xy[k]) = 0) =>
        /\ pc = "failed"
        /\ vertices = <<>>
        /\ weights = <<>>

\* Three distinct nodes on one line were passed, with evaluation points.
C9_Witness ==
    /\ pc = "failed"
    /\ Len(xy) = 3
    /\ Len(uv) > 0

\* C10: when an evaluation point is the coordinate of source node i, the
\* weights of construct_vertices are 1 on the slot holding i and 0 on the
\* other two, and fast_interpolate returns field[i] there.
C10_ExactAtVertices ==
    Built =>
        \A q \in 1..Len(uv) : \A i \in NodeIds(xy) :
            uv[q] = Node(xy, i) =>
                /\ \E j \in 1..3 :
                      /\ vertices[q][j] = i
                      /\ weights[q][j] = RInt(1)
                      /\ \A k \in (1..3) \ {j} : weights[q][k] = RInt(0)
                /\ Evaluated => result.out[q] = RInt(values[i + 1])

\* The field was evaluated at a node that is a corner of more than one
\* triangle of the triangulation of a four-node mesh, where the field is not
\* zero.
C10_Witness ==
    /\ Evaluated
    /\ Len(xy) = 4
    /\ \E q \in 1..Len(uv) : \E i \in NodeIds(xy) :
          /\ uv[q] = Node(xy, i)
          /\ values[i + 1] # 0
          /\ result.out[q] = RInt(values[i + 1])
          /\ \A S \in Triangulations(xy) :
                Cardinality({t \in S : i \in {t[1], t[2], t[3]}}) > 1

\* =================================================== re-use of one map
\* The source point sets of the first cell of the strip (the unit square and
\* its four triangles): the geometry of the re-use and sharing scenarios.
CellSets ==
    {s \in SourceSets : Len(s) >= 3 /\ \A n \in 1..Len(s) : s[n][1] <= 4}

InitLin ==
    /\ xy \in CellSets
    /\ uv = <<>>
    /\ pc = "start"
    /\ vertices = <<>>
    /\ weights = <<>>
    /\ values = <<>>
    /\ result = NoResult
    /\ call = <<>>
    /\ log = <<>>
    /\ prep = <<>>
    /\ bc = <<>>

\* fast_interpolate(values, vertices, weights) with a field of the caller's
\* choice: the first two calls of the re-use scenario.
CallField ==
    /\ pc = "built"
    /\ Len(log) < 2
    /\ \E v \in FieldsOfLen(Len(xy)) :
          log' = Append(log, [values |-> v,
                              result |-> FastInterpolate(v, vertices, weights)])
    /\ UNCHANGED <<xy, uv, pc, vertices, weights, values, result, call, prep, bc>>

\* fast_interpolate(f + g, vertices, weights) for the fields f and g of the
\* first two calls.
CallSum ==
    /\ pc = "built"
    /\ Len(log) = 2
    /\ LET v == [i \in 1..Len(xy) |-> log[1].values[i] + log[2].values[i]]
       IN  log' = Append(log, [values |-> v,
                               result |-> FastInterpolate(v, vertices, weights)])
    /\ UNCHANGED <<xy, uv, pc, vertices, weights, values, result, call, prep, bc>>

NextLin == ConstructVertices \/ CallField \/ CallSum

SpecLin == InitLin /\ [][NextLin]_vars

\* C7: on one map, for field vectors f and g of the source point count,
\* fast_interpolate(f + g) equals fast_interpolate(f) + fast_interpolate(g)
\* at every evaluation point.
C7_Linear ==
    \A a, b, c \in 1..Len(log) :
        (\A i \in 1..Len(xy) :
            log[c].values[i] = log[a].values[i] + log[b].values[i]) =>
            /\ log[c].result.raised = ""
            /\ Len(log[c].result.out) = Len(uv)
            /\ \A q \in 1..Len(uv) :
                  log[c].result.out[q] =
                      RAdd(log[a].result.out[q], log[b].result.out[q])

\* Two different fields and their sum were evaluated on a map of two
\* points, and both fields contribute to the sum at some point.
C7_Witness ==
    /\ Len(log) = 3
    /\ Len(uv) = 2
    /\ log[1].values # log[2].values
    /\ \E q \in 1..Len(uv) :
          /\ log[1].result.out[q].n # 0
          /\ log[2].result.out[q].n # 0
          /\ log[3].result.out[q] =
                 RAdd(log[1].result.out[q], log[2].result.out[q])

\* =============================================== parallel evaluation calls
\* Two threads that share one map.
Callers == {"a", "b"}

Idle == [pc |-> "idle", values |-> <<>>, taken |-> <<>>, out |-> <<>>]

\* Mutant of EinsumStep: the product is formed in place, in the weights.
EinsumInPlace(c) ==
    /\ pc = "built"
    /\ call[c].pc = "taken"
    /\ weights' = [n \in 1..Len(weights) |->
                      [j \in 1..3 |-> RMul(weights[n][j], RInt(call[c].taken[n][j]))]]
    /\ call' = [call EXCEPT ![c].pc = "done",
                            ![c].out = [n \in 1..Len(weights) |->
                                RAdd(RAdd(weights'[n][1], weights'[n][2]), weights'[n][3])]]
    /\ UNCHANGED <<xy, uv, pc, vertices, values, result, log, prep, bc>>

\* Caller c enters fast_interpolate: np.take(values, vertices) reads the
\* shared vertices and builds the caller's own array.
TakeStep(c) ==
    /\ pc = "built"
    /\ call[c].pc = "idle"
    /\ \E v \in FieldsOfLen(Len(xy)) :
          call' = [call EXCEPT ![c] = [pc |-> "taken", values |-> v,
                                       taken |-> TakeValues(v, vertices),
                                       out |-> <<>>]]
    /\ UNCHANGED <<xy, uv, pc, vertices, weights, values, result, log, prep, bc>>

\* Caller c: np.einsum reads the shared weights and builds the output.
EinsumStep(c) ==
    /\ pc = "built"
    /\ call[c].pc = "taken"
    /\ call' = [call EXCEPT ![c].pc = "done",
                            ![c].out = EinsumNjNj(call[c].taken, weights)]
    /\ UNCHANGED <<xy, uv, pc, vertices, weights, values, result, log, prep, bc>>

\* Caller c returns and may call again.
ReturnStep(c) ==
    /\ pc = "built"
    /\ call[c].pc = "done"
    /\ call' = [call EXCEPT ![c] = Idle]
    /\ UNCHANGED <<xy, uv, pc, vertices, weights, values, result, log, prep, bc>>

NextShare ==
    \/ ConstructVertices
    \/ \E c \in Callers : TakeStep(c)
    \/ \E c \in Callers : EinsumStep(c)
    \/ \E c \in Callers : ReturnStep(c)

InitShare ==
    /\ xy \in CellSets
    /\ uv = <<>>
    /\ pc = "start"
    /\ vertices = <<>>
    /\ weights = <<>>
    /\ values = <<>>
    /\ result = NoResult
    /\ call = [c \in Callers |-> Idle]
    /\ log = <<>>
    /\ prep = <<>>
    /\ bc = <<>>

SpecShare == InitShare /\ [][NextShare]_vars

\* C8: once construct_vertices has returned a map, fast_interpolate calls on
\* it, however interleaved and whatever their fields, leave vertices and
\* weights unchanged, and each call returns what it returns when run alone.
C8_SharedMapReadOnly ==
    /\ [](\A c \in Callers :
            (pc = "built" /\ call[c].pc = "done") =>
                call[c].out =
                    FastInterpolate(call[c].values, vertices, weights).out)
    /\ [][pc = "built" => (vertices' = vertices /\ weights' = weights)]_vars

\* One call has returned its output while the other, with another field,
\* is between its np.take and its np.einsum.
C8_Witness ==
    /\ pc = "built"
    /\ Len(uv) = 2
    /\ call["a"].pc = "done"
    /\ call["b"].pc = "taken"
    /\ call["a"].values # call["b"].values
    /\ \E q \in 1..2 : call["a"].out[q].n # 0

\* ======================================= prepare_for_interpolation, 133-140
\* unique(z, return_index=True) for z = x + 1j*y, a complex as <<re, im>>:
\* the distinct values in sorted order.
UniqueValues(z) == SortPts({z[i] : i \in 1..Len(z)})

\* Mutant of UniqueIndices: the rank in the sorted output is returned in
\* place of the index into the input.
UniqueRanks(z) == [k \in 1..Len(UniqueValues(z)) |-> k - 1]

\* unique(z, return_index=True): for each distinct value the 0-based index of
\* its first occurrence in z.
UniqueIndices(z) ==
    LET u == UniqueValues(z)
    IN  [k \in 1..Len(u) |->
            (CHOOSE i \in 1..Len(z) :
                z[i] = u[k] /\ \A j \in 1..(i - 1) : z[j] # u[k]) - 1]

\* arr[idx] for an index array idx
FancyIndex(arr, idx) == [k \in 1..Len(idx) |-> arr[PyIndex(idx[k], Len(arr))]]

\* The arrays of a mesh file: up to MaxData coordinates of FEM nodes, with
\* repetitions, and a value for each.
InitDedup ==
    /\ \E n \in 0..MaxData : \E p \in [1..n -> Grid] : \E u \in [1..n -> {1, 2}] :
          prep = [pc |-> "start",
                  x |-> [i \in 1..n |-> p[i][1]],
                  y |-> [i \in 1..n |-> p[i][2]],
                  elem_solution |-> u,
                  x_unique |-> <<>>, y_unique |-> <<>>, U_unique |-> <<>>]
    /\ xy = <<>>
    /\ uv = <<>>
    /\ pc = "start"
    /\ vertices = <<>>
    /\ weights = <<>>
    /\ values = <<>>
    /\ result = NoResult
    /\ call = <<>>
    /\ log = <<>>
    /\ bc = <<>>

\* Lines 133-140 on the flattened arrays x, y and elem_solution.
RemoveDoublePoints ==
    /\ prep.pc = "start"
    /\ LET z == [i \in 1..Len(prep.x) |-> <<prep.x[i], prep.y[i]>>]
           unique_indices == UniqueIndices(z)
       IN  prep' = [prep EXCEPT
                       !.pc = "done",
                       !.x_unique = FancyIndex(prep.x, unique_indices),
                       !.y_unique = FancyIndex(prep.y, unique_indices),
                       !.U_unique = FancyIndex(prep.elem_solution, unique_indices)]
    /\ UNCHANGED <<xy, uv, pc, vertices, weights, values, result, call, log, bc>>

\* The caller hands the unique points on and prepares the next file.
NextFile ==
    /\ prep.pc = "done"
    /\ prep' = [prep EXCEPT !.pc = "start", !.x_unique = <<>>,
                            !.y_unique = <<>>, !.U_unique = <<>>]
    /\ UNCHANGED <<xy, uv, pc, vertices, weights, values, result, call, log, bc>>

NextDedup == RemoveDoublePoints \/ NextFile

SpecDedup == InitDedup /\ [][NextDedup]_vars

\* C5: from N coordinates and their N values the de-duplication returns
\* M <= N points, no two with the same (x, y), every input coordinate exactly
\* once, each with the value the input gives at an occurrence of it.
C5_Dedup ==
    prep.pc = "done" =>
        LET N == Len(prep.x)
            M == Len(prep.x_unique)
        IN  /\ M <= N
            /\ Len(prep.y_unique) = M
            /\ Len(prep.U_unique) = M
            /\ \A k, l \in 1..M :
                  (prep.x_unique[k] = prep.x_unique[l]
                     /\ prep.y_unique[k] = prep.y_unique[l]) => k = l
            /\ \A i \in 1..N :
                  Cardinality({k \in 1..M : /\ prep.x_unique[k] = prep.x[i]
                                            /\ prep.y_unique[k] = prep.y[i]}) = 1
            /\ \A k \in 1..M :
                  \E i \in 1..N :
                      /\ prep.x[i] = prep.x_unique[k]
                      /\ prep.y[i] = prep.y_unique[k]
                      /\ prep.elem_solution[i] = prep.U_unique[k]

\* Three coordinates, the larger one given twice with the same value and
\* first, were reduced to two.
C5_Witness ==
    /\ prep.pc = "done"
    /\ Len(prep.x) = 3
    /\ Len(prep.x_unique) = 2
    /\ <<prep.x[1], prep.y[1]>> = <<prep.x[3], prep.y[3]>>
    /\ Before(<<prep.x[2], prep.y[2]>>, <<prep.x[1], prep.y[1]>>)
    /\ prep.elem_solution[1] # prep.elem_solution[2]
    /\ prep.U_unique = <<prep.elem_solution[2], prep.elem_solution[1]>>

\* ============================================================ interpolate_BC
RECURSIVE SeqMin(_)
\* np.min of a non-empty array
SeqMin(a) ==
    IF Len(a) = 1 THEN a[1]
    ELSE LET m == SeqMin(Tail(a)) IN IF a[1] < m THEN a[1] ELSE m

RECURSIVE SeqMax(_)
\* np.max of a non-empty array
SeqMax(a) ==
    IF Len(a) = 1 THEN a[1]
    ELSE LET m == SeqMax(Tail(a)) IN IF a[1] > m THEN a[1] ELSE m

\* What interpolate.griddata(points, Udata, (xeval, yeval), method) can do:
\* raise from its triangulation, return nan outside the convex hull of the
\* points, or return an interpolated number (some number: the cubic fit is
\* not computed here).
Griddata(points, Udata, p) ==
    IF Degenerate(points) THEN {[raised |-> "QhullError", value |-> nan]}
    ELSE IF ~ InHull(points, p) THEN {[raised |-> "", value |-> nan]}
    ELSE {[raised |-> "", value |-> RInt(Udata[i])] : i \in 1..Len(Udata)}

\* The points interpolate_BC is asked for: the BEM points and two points
\* left of and below every FEM node.
EvalPoints == {BEMPoints[n] : n \in 1..Len(BEMPoints)} \cup {<<-1, 2>>, <<2, -1>>}

InitBC ==
    /\ \E n \in 1..MaxData : \E p \in [1..n -> Grid] : \E e \in EvalPoints :
          bc = [pc |-> "start",
                xdata |-> [i \in 1..n |-> p[i][1]],
                ydata |-> [i \in 1..n |-> p[i][2]],
                Udata |-> Ramp(n),
                xeval |-> e[1], yeval |-> e[2],
                ret |-> NoResult, griddata_calls |-> 0, griddata_ret |-> NoResult]
    /\ xy = <<>>
    /\ uv = <<>>
    /\ pc = "start"
    /\ vertices = <<>>
    /\ weights = <<>>
    /\ values = <<>>
    /\ result = NoResult
    /\ call = <<>>
    /\ log = <<>>
    /\ prep = <<>>

\* Mutant of InterpolateBC: the bounds of the data are excluded.
InterpolateBCStrict ==
    /\ bc.pc = "start"
    /\ IF /\ bc.xeval > SeqMin(bc.xdata) /\ bc.xeval < SeqMax(bc.xdata)
          /\ bc.yeval > SeqMin(bc.ydata) /\ bc.yeval < SeqMax(bc.ydata)
       THEN \E g \in Griddata([i \in 1..Len(bc.xdata) |-> <<bc.xdata[i], bc.ydata[i]>>],
                              bc.Udata, <<bc.xeval, bc.yeval>>) :
               bc' = [bc EXCEPT !.pc = "done", !.ret = g,
                                !.griddata_calls = @ + 1, !.griddata_ret = g]
       ELSE bc' = [bc EXCEPT !.pc = "done", !.ret = [raised |-> "", value |-> nan]]
    /\ UNCHANGED <<xy, uv, pc, vertices, weights, values, result, call, log, prep>>

\* interpolate_BC(xdata, ydata, Udata, xeval, yeval)
InterpolateBC ==
    /\ bc.pc = "start"
    /\ IF bc.xeval >= SeqMin(bc.xdata) /\ bc.xeval <= SeqMax(bc.xdata)
       THEN IF bc.yeval >= SeqMin(bc.ydata) /\ bc.yeval <= SeqMax(bc.ydata)
            THEN \E g \in Griddata([i \in 1..Len(bc.xdata) |->
                                       <<bc.xdata[i], bc.ydata[i]>>],
                                   bc.Udata, <<bc.xeval, bc.yeval>>) :
                    bc' = [bc EXCEPT !.pc = "done", !.ret = g,
                                     !.griddata_calls = @ + 1, !.griddata_ret = g]
            ELSE bc' = [bc EXCEPT !.pc = "done",
                                  !.ret = [raised |-> "", value |-> nan]]
       ELSE bc' = [bc EXCEPT !.pc = "done", !.ret = [raised |-> "", value |-> nan]]
    /\ UNCHANGED <<xy, uv, pc, vertices, weights, values, result, call, log, prep>>

\* The caller takes the value and asks for the next point from scratch.
NextPoint ==
    /\ bc.pc = "done"
    /\ bc' = [bc EXCEPT !.pc = "start", !.ret = NoResult,
                        !.griddata_calls = 0, !.griddata_ret = NoResult]
    /\ UNCHANGED <<xy, uv, pc, vertices, weights, values, result, call, log, prep>>

NextBC == InterpolateBC \/ NextPoint

SpecBC == InitBC /\ [][NextBC]_vars

\* C6: interpolate_BC returns not-a-number without calling griddata when
\* xeval is below the minimum or above the maximum of xdata, or yeval below
\* the minimum or above the maximum of ydata; with both inside those ranges,
\* bounds included, griddata is called and its result returned.
C6_BoundingBox ==
    bc.pc = "done" =>
        IF \/ \A i \in 1..Len(bc.xdata) : bc.xeval < bc.xdata[i]
           \/ \A i \in 1..Len(bc.xdata) : bc.xeval > bc.xdata[i]
           \/ \A i \in 1..Len(bc.ydata) : bc.yeval < bc.ydata[i]
           \/ \A i \in 1..Len(bc.ydata) : bc.yeval > bc.ydata[i]
        THEN /\ bc.ret = [raised |-> "", value |-> nan]
             /\ bc.griddata_calls = 0
        ELSE /\ bc.griddata_calls = 1
             /\ bc.ret = bc.griddata_ret

\* A point on the lower bound of x and the upper bound of y of a triangle
\* of data was interpolated by griddata.
C6_Witness ==
    /\ bc.pc = "done"
    /\ Len(bc.xdata) = 3
    /\ \A i \in 1..3 : bc.xeval <= bc.xdata[i] /\ bc.yeval >= bc.ydata[i]
    /\ bc.griddata_calls = 1
    /\ bc.ret.raised = ""
    /\ ~ IsNan(bc.ret.value)

====
